---------------------------- MODULE Spec2Model ----------------------------
(***************************************************************************)
(* A model of main.py: a FastAPI application that checks three filesystem  *)
(* paths at startup, mounts static/assets under /assets and serves         *)
(* static/index.html on GET /, behind a CORS and a GZip middleware.        *)
(*                                                                         *)
(* Paths are sequences of segments from the filesystem root.  A file's     *)
(* bytes are identified by the path they were read from and their length.  *)
(***************************************************************************)
EXTENDS Integers, Sequences, FiniteSets, TLC

VARIABLES
    paths,      \* the module globals STATIC_DIR, ASSETS_DIR, INDEX_PATH
    fs,         \* the filesystem: path -> entry
    atStart,    \* history: which required paths existed at process start
    phase,      \* position of the process in its life cycle
    error,      \* the uncaught exception that ended startup, if any
    log,        \* records written through `logger`
    inflight,   \* per connection: the FileResponse a GET / handler returned and
                \* that is not sent yet
    last        \* the most recently completed request/response exchange

vars == <<paths, fs, atStart, phase, error, log, inflight, last>>

----------------------------------------------------------------------------
(* Bounds and program constants *)

\* longest request path under /assets/, in segments
MaxSegs == 2

\* GZipMiddleware(minimum_size=1000)
minimum_size == 1000

\* allow_origins=["http://localhost:8000"]
allow_origins == {"http://localhost:8000"}

\* Origin headers a request may carry; "" is a request without Origin
NoOrigin == ""

\* a response header that is not set
NoHeader == "(not set)"
Origins == {NoOrigin, "http://localhost:8000", "http://evil.example"}

\* the connections that can be open at once
Conns == {"c1", "c2"}

----------------------------------------------------------------------------
(* Paths: lines 20-24 *)

BASE_DIR == <<"app">>
STATIC_DIR == BASE_DIR \o <<"static">>
ASSETS_DIR == STATIC_DIR \o <<"assets">>
INDEX_PATH == STATIC_DIR \o <<"index.html">>

\* files of the deployment that the program does not name
SECRET_PATH == STATIC_DIR \o <<"secret.txt">>
APP_JS_PATH == ASSETS_DIR \o <<"app.js">>
SUB_DIR == ASSETS_DIR \o <<"sub">>
SUB_INDEX_PATH == SUB_DIR \o <<"index.html">>

Nodes == {BASE_DIR, STATIC_DIR, ASSETS_DIR, INDEX_PATH, SECRET_PATH,
          APP_JS_PATH, SUB_DIR, SUB_INDEX_PATH}

\* lengths a served document may have, around the compression threshold
Sizes == {minimum_size - 1, minimum_size, minimum_size + 1}

Absent == [kind |-> "absent", len |-> 0]
Dir == [kind |-> "dir", len |-> 0]
File(n) == [kind |-> "file", len |-> n]
\* a regular file the server process has no permission to open
Unreadable(n) == [kind |-> "unreadable", len |-> n]

Entry(F, p) == IF p \in DOMAIN F THEN F[p] ELSE Absent

\* Path.exists(): stat() succeeds
exists(F, p) == Entry(F, p).kind # "absent"

\* os.path.isdir
isdir(F, p) == Entry(F, p).kind = "dir"

\* the deployments the process can be started in
Deployment(hasStatic, hasAssets, indexEntry) ==
    [p \in Nodes |->
        IF p = BASE_DIR THEN Dir
        ELSE IF ~hasStatic THEN Absent
        ELSE IF p = STATIC_DIR THEN Dir
        ELSE IF p = INDEX_PATH THEN indexEntry
        ELSE IF p = SECRET_PATH THEN File(minimum_size + 1)
        ELSE IF ~hasAssets THEN Absent
        ELSE IF p = ASSETS_DIR THEN Dir
        ELSE IF p = APP_JS_PATH THEN File(minimum_size)
        ELSE IF p = SUB_DIR THEN Dir
        ELSE File(minimum_size - 1)]

Deployments ==
    {Deployment(FALSE, FALSE, Absent)} \cup
    {Deployment(TRUE, a, e) : a \in BOOLEAN, e \in {Absent} \cup {File(n) : n \in Sizes}}

----------------------------------------------------------------------------
(* Logging: lines 13-18 *)

\* HTTPException(status_code, detail); str(e) is "<status_code>: <detail>"
HTTPException(status_code, detail) == [status_code |-> status_code, detail |-> detail]
NoException == HTTPException(0, "")

\* a log record: level, message text, and the path or exception it formats
LogRecord(level, text, path, exc) ==
    [level |-> level, text |-> text, path |-> path, exc |-> exc]

----------------------------------------------------------------------------
(* Startup: lines 26-46 and 73-81 *)

Min(S) == CHOOSE x \in S : \A y \in S : x <= y

\* verify_paths() as it would be with the index document left out of
\* required_paths
verify_paths_without_index(P, F) ==
    LET required_paths == <<P.STATIC_DIR, P.ASSETS_DIR>>
        missing == {i \in 1..2 : ~exists(F, required_paths[i])}
    IN  IF missing = {}
        THEN [ok |-> TRUE, logged |-> {}]
        ELSE [ok |-> FALSE,
              logged |-> {LogRecord("ERROR", "Required path does not exist",
                                    required_paths[Min(missing)], NoException)}]

\* verify_paths() as it would be with path.is_file() for path.exists()
verify_paths_is_file(P, F) ==
    LET required_paths == <<P.STATIC_DIR, P.ASSETS_DIR, P.INDEX_PATH>>
        missing == {i \in 1..3 : Entry(F, required_paths[i]).kind # "file"}
    IN  IF missing = {}
        THEN [ok |-> TRUE, logged |-> {}]
        ELSE [ok |-> FALSE,
              logged |-> {LogRecord("ERROR", "Required path does not exist",
                                    required_paths[Min(missing)], NoException)}]

\* verify_paths(): the first required path that does not exist is logged
\* and the check fails
verify_paths(P, F) ==
    LET required_paths == <<P.STATIC_DIR, P.ASSETS_DIR, P.INDEX_PATH>>
        missing == {i \in 1..3 : ~exists(F, required_paths[i])}
    IN  IF missing = {}
        THEN [ok |-> TRUE, logged |-> {}]
        ELSE [ok |-> FALSE,
              logged |-> {LogRecord("ERROR", "Required path does not exist",
                                    required_paths[Min(missing)], NoException)}]

NoError == [type |-> "none", text |-> "", path |-> <<>>]

\* StaticFiles(directory=ASSETS_DIR, check_dir=True): the constructor raises
\* when the directory is not there
StaticFilesInit(P, F) ==
    IF isdir(F, P.ASSETS_DIR)
    THEN NoError
    ELSE [type |-> "RuntimeError", text |-> "Directory does not exist",
          path |-> P.ASSETS_DIR]

Idle == [busy |-> FALSE, origin |-> NoOrigin, gzip |-> FALSE,
         path |-> <<>>, media_type |-> ""]

NoBody == [src |-> "none", path |-> <<>>, text |-> "", len |-> 0]
NoResponse == [status |-> 0, media_type |-> "", body |-> NoBody,
               encoding |-> "identity", allow_origin |-> NoHeader,
               allow_credentials |-> FALSE, complete |-> FALSE]
NoExchange == [conn |-> "", route |-> "none", path |-> <<>>, origin |-> NoOrigin,
               gzip |-> FALSE, seen |-> Absent, resp |-> NoResponse]

Init ==
    /\ paths = [STATIC_DIR |-> STATIC_DIR, ASSETS_DIR |-> ASSETS_DIR,
                INDEX_PATH |-> INDEX_PATH]
    /\ fs \in Deployments
    /\ atStart = [STATIC_DIR |-> exists(fs, STATIC_DIR),
                  ASSETS_DIR |-> exists(fs, ASSETS_DIR),
                  INDEX_PATH |-> exists(fs, INDEX_PATH)]
    /\ phase = "start"
    /\ error = NoError
    /\ log = {}
    /\ inflight = [c \in Conns |-> Idle]
    /\ last = NoExchange

\* Importing the module runs app.mount(...), lines 73-81
ImportModule ==
    /\ phase = "start"
    /\ LET e == StaticFilesInit(paths, fs)
       IN  /\ error' = e
           /\ phase' = IF e = NoError THEN "imported" ELSE "import_failed"
    /\ UNCHANGED <<paths, fs, atStart, log, inflight, last>>

\* lifespan(), the part before the yield: lines 40-46
LifespanStartup ==
    /\ phase = "imported"
    /\ LET v == verify_paths(paths, fs)
           info == LogRecord("INFO", "Starting up application...", <<>>, NoException)
       IN  IF v.ok
           THEN /\ log' = log \cup {info}
                /\ phase' = "serving"
                /\ error' = error
           ELSE /\ log' = log \cup {info} \cup v.logged
                           \cup {LogRecord("CRITICAL", "Required paths are missing!", <<>>,
                                          NoException)}
                /\ phase' = "startup_failed"
                /\ error' = [type |-> "RuntimeError",
                             text |-> "Application cannot start: missing required paths",
                             path |-> <<>>]
    /\ UNCHANGED <<paths, fs, atStart, inflight, last>>

\* The server is told to stop (a signal): no new requests are accepted
Terminate ==
    /\ phase = "serving"
    /\ phase' = "stopping"
    /\ UNCHANGED <<paths, fs, atStart, error, log, inflight, last>>

\* lifespan(), the part after the yield: lines 48-50
LifespanShutdown ==
    /\ phase = "stopping"
    /\ \A c \in Conns : ~inflight[c].busy
    /\ log' = log \cup {LogRecord("INFO", "Shutting down application...", <<>>,
                                 NoException)}
    /\ phase' = "stopped"
    /\ UNCHANGED <<paths, fs, atStart, error, inflight, last>>

----------------------------------------------------------------------------
(* Responses and the middleware stack: lines 60-70.  add_middleware puts  *)
(* the middleware added last outermost: server errors > GZip > CORS >     *)
(* exception handlers > routes.                                           *)

Request(route, path, origin, gzip) ==
    [route |-> route, path |-> path, origin |-> origin, gzip |-> gzip]

Response(status, media_type, body) ==
    [status |-> status, media_type |-> media_type, body |-> body,
     encoding |-> "identity", allow_origin |-> NoHeader,
     allow_credentials |-> FALSE, complete |-> TRUE]

\* length of the JSON document {"detail":"<detail>"}
DetailLen(detail) ==
    CASE detail = "Internal server error" -> 34
      [] detail = "Index file not found" -> 33
      [] detail = "Not Found" -> 22
      [] OTHER -> 13

JsonBody(detail) ==
    [src |-> "json", path |-> <<>>, text |-> detail, len |-> DetailLen(detail)]
TextBody(text, n) == [src |-> "text", path |-> <<>>, text |-> text, len |-> n]
FileBody(path, n) == [src |-> "file", path |-> path, text |-> "", len |-> n]

\* The framework's handler for HTTPException: a JSON body holding the detail
http_exception_handler(exc) ==
    Response(exc.status_code, "application/json", JsonBody(exc.detail))

\* The framework's answer to an exception no handler caught
ServerErrorResponse ==
    Response(500, "text/plain", TextBody("Internal Server Error", 21))

\* the CORS middleware as it would be if it echoed any Origin
CORSMiddleware_any_origin(req, resp) ==
    IF req.origin = NoOrigin THEN resp
    ELSE [resp EXCEPT !.allow_credentials = TRUE, !.allow_origin = req.origin]

\* CORSMiddleware(allow_origins=[...], allow_credentials=True): a request
\* without Origin passes through untouched; otherwise the credentials header
\* is added, and the allow-origin header only for an allowed origin
CORSMiddleware(req, resp) ==
    IF req.origin = NoOrigin THEN resp
    ELSE [resp EXCEPT !.allow_credentials = TRUE,
                      !.allow_origin = IF req.origin \in allow_origins
                                       THEN req.origin ELSE NoHeader]

\* the GZip middleware as it would be with the threshold off by one
GZipMiddleware_above_minimum(req, resp) ==
    IF ~req.gzip THEN resp
    ELSE IF resp.body.len <= minimum_size THEN resp
    ELSE [resp EXCEPT !.encoding = "gzip"]

\* GZipMiddleware(minimum_size=1000): acts when Accept-Encoding names gzip;
\* a body shorter than minimum_size is passed on as it is
GZipMiddleware(req, resp) ==
    IF ~req.gzip THEN resp
    ELSE IF resp.body.len < minimum_size THEN resp
    ELSE [resp EXCEPT !.encoding = "gzip"]

\* what the client receives of a response the application produced
Outbound(req, resp) == GZipMiddleware(req, CORSMiddleware(req, resp))

\* a completed exchange: the connection, the request, the filesystem entry the server found
\* for it when it answered, and the response
Exchange(c, req, seen, resp) ==
    [conn |-> c, route |-> req.route, path |-> req.path, origin |-> req.origin,
     gzip |-> req.gzip, seen |-> seen, resp |-> resp]

----------------------------------------------------------------------------
(* GET /: lines 83-101 *)

FileResponse(path, media_type) == [path |-> path, media_type |-> media_type]
NoFileResponse == FileResponse(<<>>, "")

\* the try block as it would be with another media_type
read_index_try_plain(P, F) ==
    IF ~exists(F, P.INDEX_PATH)
    THEN [raised |-> HTTPException(404, "Index file not found"),
          returned |-> NoFileResponse]
    ELSE [raised |-> NoException,
          returned |-> FileResponse(P.INDEX_PATH, "text/plain")]

\* the try block, lines 87-95
read_index_try(P, F) ==
    IF ~exists(F, P.INDEX_PATH)
    THEN [raised |-> HTTPException(404, "Index file not found"),
          returned |-> NoFileResponse]
    ELSE [raised |-> NoException,
          returned |-> FileResponse(P.INDEX_PATH, "text/html")]

\* read_index(): `except Exception` catches whatever the try block raised,
\* an HTTPException included, logs it and raises the 500
read_index(P, F) ==
    LET t == read_index_try(P, F)
    IN  IF t.raised # NoException
        THEN [raised |-> HTTPException(500, "Internal server error"),
              returned |-> NoFileResponse,
              logged |-> {LogRecord("ERROR", "Error serving index.html", <<>>,
                                    t.raised)}]
        ELSE [raised |-> NoException, returned |-> t.returned, logged |-> {}]

\* FileResponse.__call__ on the entry e found at its path: stat, then the
\* response start, then open and read.  The results a client can see:
\*  - a regular readable file: 200 with the file's bytes;
\*  - no file, or not a regular file: RuntimeError before anything is sent,
\*    answered by the server-error handler outside the CORS middleware;
\*  - a file that cannot be opened: the exception comes after the response
\*    start.  When the start message is still buffered by the GZip
\*    middleware the server-error handler answers; when it was passed on,
\*    the client has the 200 status line and headers and no body.
SendFile(req, fr, e) ==
    CASE e.kind = "file" ->
            {Outbound(req, Response(200, fr.media_type, FileBody(fr.path, e.len)))}
      [] e.kind = "unreadable" ->
            IF req.gzip
            THEN {ServerErrorResponse}
            ELSE {ServerErrorResponse,
                  [CORSMiddleware(req, Response(200, fr.media_type, NoBody))
                       EXCEPT !.complete = FALSE]}
      [] OTHER -> {ServerErrorResponse}

\* A GET / arrives on connection c and the handler runs
GetIndex(c, origin, gzip) ==
    /\ phase = "serving"
    /\ ~inflight[c].busy
    /\ LET req == Request("index", <<>>, origin, gzip)
           e == Entry(fs, paths.INDEX_PATH)
           r == read_index(paths, fs)
       IN  /\ log' = log \cup r.logged
           /\ IF r.raised # NoException
              THEN /\ last' = Exchange(c, req, e,
                                       Outbound(req, http_exception_handler(r.raised)))
                   /\ inflight' = inflight
              ELSE /\ inflight' = [inflight EXCEPT ![c] =
                                     [busy |-> TRUE, origin |-> origin, gzip |-> gzip,
                                      path |-> r.returned.path,
                                      media_type |-> r.returned.media_type]]
                   /\ last' = last
    /\ UNCHANGED <<paths, fs, atStart, phase, error>>

\* SendIndex as it would be if the request being answered were kept in one
\* place shared by all connections: the response is made for the request of
\* whichever connection wrote there last
SendIndex_shared_request(c) ==
    /\ phase \in {"serving", "stopping"}
    /\ inflight[c].busy
    /\ \E d \in Conns :
         /\ inflight[d].busy
         /\ LET s == inflight[c]
                req == Request("index", <<>>, s.origin, s.gzip)
                used == Request("index", <<>>, inflight[d].origin, inflight[d].gzip)
                e == Entry(fs, s.path)
            IN  \E resp \in SendFile(used, FileResponse(s.path, s.media_type), e) :
                    last' = Exchange(c, req, e, resp)
    /\ inflight' = [inflight EXCEPT ![c] = Idle]
    /\ UNCHANGED <<paths, fs, atStart, phase, error, log>>

\* The FileResponse returned on connection c is sent
SendIndex(c) ==
    /\ phase \in {"serving", "stopping"}
    /\ inflight[c].busy
    /\ LET s == inflight[c]
           req == Request("index", <<>>, s.origin, s.gzip)
           e == Entry(fs, s.path)
       IN  \E resp \in SendFile(req, FileResponse(s.path, s.media_type), e) :
               last' = Exchange(c, req, e, resp)
    /\ inflight' = [inflight EXCEPT ![c] = Idle]
    /\ UNCHANGED <<paths, fs, atStart, phase, error, log>>

----------------------------------------------------------------------------
(* GET /assets/<path>: the mount of lines 73-81,                          *)
(* StaticFiles(directory=ASSETS_DIR, check_dir=True, html=True)           *)

\* the segments a request path is made of; "" is what an empty segment
\* (a doubled or a trailing slash) splits into
Segs == {"..", "", "sub", "app.js", "secret.txt", "index.html"}

RequestPaths == UNION {[1..n -> Segs] : n \in 0..MaxSegs}

\* the request paths of the specification that also serves GET /
MainPaths == {<<"app.js">>, <<"sub", "">>, <<"..", "secret.txt">>}

\* os.path.normpath / os.path.realpath on segments: empty and "." segments
\* are dropped, ".." removes the segment before it; a relative path keeps a
\* leading "..", an absolute one drops it at the root
RECURSIVE Normalize(_, _, _)
Normalize(done, todo, absolute) ==
    IF todo = <<>> THEN done
    ELSE LET s == Head(todo)
             rest == Tail(todo)
         IN  IF s = "" \/ s = "."
             THEN Normalize(done, rest, absolute)
             ELSE IF s = ".."
             THEN IF done # <<>> /\ done[Len(done)] # ".."
                  THEN Normalize(SubSeq(done, 1, Len(done) - 1), rest, absolute)
                  ELSE IF absolute
                  THEN Normalize(done, rest, absolute)
                  ELSE Normalize(Append(done, ".."), rest, absolute)
             ELSE Normalize(Append(done, s), rest, absolute)

\* StaticFiles.get_path: the route path, split at "/", joined and normalised
get_path(segs) == Normalize(<<>>, segs, FALSE)

realpath(p) == Normalize(<<>>, p, TRUE)

\* os.path.commonpath([full_path, directory]) == directory
IsUnder(directory, full_path) ==
    /\ Len(directory) <= Len(full_path)
    /\ SubSeq(full_path, 1, Len(directory)) = directory

NotFound == [full_path |-> <<>>, stat_result |-> Absent]

\* lookup_path as it would be without the check that the resolved path is
\* under the directory
lookup_path_unchecked(P, F, path) ==
    LET full_path == realpath(P.ASSETS_DIR \o path)
    IN  IF ~exists(F, full_path) THEN NotFound
        ELSE [full_path |-> full_path, stat_result |-> Entry(F, full_path)]

\* StaticFiles.lookup_path: a path that resolves outside the directory is
\* skipped, as is one that names nothing
lookup_path(P, F, path) ==
    LET directory == realpath(P.ASSETS_DIR)
        full_path == realpath(P.ASSETS_DIR \o path)
    IN  IF ~IsUnder(directory, full_path) THEN NotFound
        ELSE IF ~exists(F, full_path) THEN NotFound
        ELSE [full_path |-> full_path, stat_result |-> Entry(F, full_path)]

\* mimetypes.guess_type on the file name
guess_type(full_path) ==
    LET name == full_path[Len(full_path)]
    IN  CASE name = "index.html" -> "text/html"
          [] name = "app.js" -> "text/javascript"
          [] OTHER -> "text/plain"

IsRegular(e) == e.kind \in {"file", "unreadable"}

\* the URL path ends with "/"
EndsWithSlash(segs) == segs = <<>> \/ segs[Len(segs)] = ""

\* StaticFiles.get_response with html=True: a regular file is served; a
\* directory holding index.html is served through it (after a redirect to
\* the URL with a trailing slash); anything else is 404.html when the
\* directory has one and the 404 exception otherwise.  The result is the set
\* of responses the client can get.
StaticFilesResponse(P, F, req) ==
    LET path == get_path(req.path)
        found == lookup_path(P, F, path)
        index == lookup_path(P, F, path \o <<"index.html">>)
        page404 == lookup_path(P, F, <<"404.html">>)
    IN  IF IsRegular(found.stat_result)
        THEN SendFile(req, FileResponse(found.full_path, guess_type(found.full_path)),
                      found.stat_result)
        ELSE IF found.stat_result.kind = "dir" /\ IsRegular(index.stat_result)
        THEN IF ~EndsWithSlash(req.path)
             THEN {Outbound(req, Response(307, "", NoBody))}
             ELSE SendFile(req, FileResponse(index.full_path, "text/html"),
                           index.stat_result)
        ELSE IF IsRegular(page404.stat_result)
        THEN {[r EXCEPT !.status = IF r.status = 200 THEN 404 ELSE r.status] :
                 r \in SendFile(req, FileResponse(page404.full_path, "text/html"),
                                page404.stat_result)}
        ELSE {Outbound(req, http_exception_handler(HTTPException(404, "Not Found")))}

\* the entry that a request path names when resolved from the assets
\* directory
Resolved(P, F, segs) == Entry(F, realpath(P.ASSETS_DIR \o get_path(segs)))

\* A GET /assets/<path> arrives on connection c and is answered.  The files under the assets directory
\* do not change while the program runs, so lookup and sending are one step.
GetAsset(c, path, origin, gzip) ==
    /\ phase = "serving"
    /\ ~inflight[c].busy
    /\ LET req == Request("assets", path, origin, gzip)
       IN  \E resp \in StaticFilesResponse(paths, fs, req) :
               last' = Exchange(c, req, Resolved(paths, fs, path), resp)
    /\ UNCHANGED <<paths, fs, atStart, phase, error, log, inflight>>

\* The index document is removed, replaced or made unreadable by something
\* outside the program while it serves
IndexEntries ==
    {Absent, Dir, Unreadable(minimum_size)} \cup {File(n) : n \in Sizes}

FilesystemChange(e) ==
    /\ phase = "serving"
    /\ e # fs[INDEX_PATH]
    /\ fs' = [fs EXCEPT ![INDEX_PATH] = e]
    /\ UNCHANGED <<paths, atStart, phase, error, log, inflight, last>>

Next ==
    \/ ImportModule
    \/ LifespanStartup
    \/ Terminate
    \/ LifespanShutdown
    \/ \E c \in Conns, o \in Origins, g \in BOOLEAN : GetIndex(c, o, g)
    \/ \E c \in Conns : SendIndex(c)
    \/ \E e \in IndexEntries : FilesystemChange(e)
    \/ \E c \in Conns, p \in MainPaths, o \in Origins, g \in BOOLEAN :
          GetAsset(c, p, o, g)

Spec == Init /\ [][Next]_vars

\* The process is scheduled: the import and the startup hook run when they can
FairSpec == Spec /\ WF_vars(ImportModule) /\ WF_vars(LifespanStartup)

\* The life cycle with requests under /assets/ only, over every request path
NextAssets ==
    \/ ImportModule
    \/ LifespanStartup
    \/ Terminate
    \/ LifespanShutdown
    \/ \E p \in RequestPaths : GetAsset("c1", p, "http://localhost:8000", TRUE)

SpecAssets == Init /\ [][NextAssets]_vars

----------------------------------------------------------------------------
(* Properties *)

AllPresentAtStart ==
    atStart.STATIC_DIR /\ atStart.ASSETS_DIR /\ atStart.INDEX_PATH

NothingServed ==
    /\ phase \notin {"serving", "stopping", "stopped"}
    /\ last = NoExchange
    /\ \A c \in Conns : ~inflight[c].busy

\* C1: when a required path (static root, assets directory, index.html) is
\* missing at process start, the server never reaches the serving state and
\* no request on GET / or GET /assets/* is ever handled.
C1_MissingPathNeverServes == ~AllPresentAtStart => NothingServed

\* C1 witness: startup has failed in lifespan() with index.html missing.
C1_Witness ==
    /\ atStart.ASSETS_DIR /\ ~atStart.INDEX_PATH
    /\ phase = "startup_failed"

\* C2: GET / answered while the index document is absent has status 404.
C2_AbsentIndexIs404 ==
    (last.route = "index" /\ last.seen.kind = "absent") => last.resp.status = 404

RequiredPaths == {paths.STATIC_DIR, paths.ASSETS_DIR, paths.INDEX_PATH}

\* C3: whenever startup has failed for a missing required path, the log
\* holds a record naming a required path that is missing, and a record of
\* critical severity.
C3_StartupFailureIsLogged ==
    phase \in {"import_failed", "startup_failed"} =>
        /\ \E r \in log : /\ r.level = "ERROR"
                          /\ r.path \in RequiredPaths
                          /\ ~exists(fs, r.path)
        /\ \E r \in log : r.level = "CRITICAL"

\* C4: with all three required paths present at process start the server
\* comes to serve; it leaves the serving state only by being told to stop;
\* and the shutdown step is reached only after a startup that succeeded.
C4_ServesUntilTerminated ==
    /\ (AllPresentAtStart /\ phase = "start") ~> (phase = "serving")
    /\ [][(phase = "serving" /\ phase' # "serving") => Terminate]_vars
    /\ [](phase \in {"stopping", "stopped"} =>
            /\ AllPresentAtStart
            /\ error = NoError
            /\ \A r \in log : r.level # "CRITICAL")

\* C4 witness: a process started with all paths present has served a
\* request and has then been shut down.
C4_Witness ==
    /\ AllPresentAtStart
    /\ phase = "stopped"
    /\ last.resp.status = 200

\* C5: GET / answered while the index document is there but cannot be read
\* as a file has status 500 and the body {"detail": "Internal server error"}.
C5_ReadFailureIsGeneric500 ==
    (last.route = "index" /\ last.seen.kind \in {"dir", "unreadable"}) =>
        /\ last.resp.status = 500
        /\ last.resp.body = JsonBody("Internal server error")

\* C6: GET / answered while the index document is a readable file has
\* status 200, content type text/html and, as its content, the bytes of
\* that file (gzip-coded or not).
C6_IndexServed ==
    (last.route = "index" /\ last.seen.kind = "file") =>
        /\ last.resp.status = 200
        /\ last.resp.media_type = "text/html"
        /\ last.resp.complete
        /\ last.resp.body = FileBody(INDEX_PATH, last.seen.len)

\* C6 witness: an index document of minimum_size bytes has been served to a
\* client that accepts gzip.
C6_Witness ==
    /\ last.route = "index"
    /\ last.seen = File(minimum_size)
    /\ last.gzip
    /\ last.resp.status = 200

\* where the operating system gets to, segment by segment, from `loc`
RECURSIVE Walk(_, _)
Walk(loc, segs) ==
    IF segs = <<>> THEN loc
    ELSE LET s == Head(segs)
         IN  Walk(IF s = "" THEN loc
                  ELSE IF s = ".."
                  THEN (IF loc = <<>> THEN loc ELSE SubSeq(loc, 1, Len(loc) - 1))
                  ELSE Append(loc, s),
                  Tail(segs))

InAssets(p) == Len(p) >= Len(ASSETS_DIR) /\ SubSeq(p, 1, Len(ASSETS_DIR)) = ASSETS_DIR

Escapes(segs) == ~InAssets(Walk(ASSETS_DIR, segs))

\* C7: no response to a request under /assets/ has the contents of a file
\* outside the assets directory, and a request whose path leads out of the
\* assets directory gets 403 or 404.
C7_NoTraversal ==
    last.route = "assets" =>
        /\ last.resp.body.src = "file" => InAssets(last.resp.body.path)
        /\ Escapes(last.path) => last.resp.status \in {403, 404}

\* C7 witness: a request whose path leads to an existing file outside the
\* assets directory has been answered.
C7_Witness ==
    /\ last.route = "assets"
    /\ Escapes(last.path)
    /\ Entry(fs, Walk(ASSETS_DIR, last.path)).kind = "file"
    /\ last.resp.status = 404

\* C8 as stated: every response has the allow-origin header of the
\* configured origin, and a request of another origin never gets an
\* allow-origin header equal to its own origin.
C8_EveryResponseAllowsOrigin ==
    last.route # "none" =>
        /\ last.resp.allow_origin \in allow_origins
        /\ last.origin \notin allow_origins => last.resp.allow_origin # last.origin

\* C8 amended: a response to a GET has the allow-origin header exactly when
\* the request's Origin is the configured origin and the response is the
\* application's own (not the framework's 500 for an uncaught exception);
\* the header's value is then that origin.
C8_AllowOriginOnlyForConfigured ==
    last.route # "none" =>
        /\ last.resp.allow_origin \in allow_origins \cup {NoHeader}
        /\ last.resp.allow_origin # NoHeader <=>
               (last.origin \in allow_origins /\ last.resp # ServerErrorResponse)
        /\ last.resp.allow_origin # NoHeader => last.resp.allow_origin = last.origin

\* C8 witness: a 200 response to a request of the configured origin holds
\* the header.
C8_Witness ==
    /\ last.origin = "http://localhost:8000"
    /\ last.resp.allow_origin = "http://localhost:8000"
    /\ last.resp.status = 200

\* C9: for a client that accepts gzip, a response is compressed exactly
\* when its body is at least minimum_size bytes long.
C9_CompressedIffAtLeastMinimum ==
    (last.route # "none" /\ last.gzip /\ last.resp.complete) =>
        (last.resp.encoding = "gzip" <=> last.resp.body.len >= minimum_size)

\* C9 witness: a body of exactly minimum_size bytes was sent compressed.
C9_Witness ==
    /\ last.gzip
    /\ last.resp.body.len = minimum_size
    /\ last.resp.encoding = "gzip"

\* the responses a request can get when it is the only one the server has,
\* given the entry its file was found to be when it was answered
AloneResponses(x) ==
    LET req == Request(x.route, x.path, x.origin, x.gzip)
    IN  IF x.route = "index"
        THEN IF x.seen.kind = "absent"
             THEN {Outbound(req, http_exception_handler(
                                     HTTPException(500, "Internal server error"))),
                   ServerErrorResponse}
             ELSE SendFile(req, FileResponse(INDEX_PATH, "text/html"), x.seen)
        ELSE StaticFilesResponse(paths, fs, req)

\* C10: the three path values never change; a step that takes or answers a
\* request changes no server state besides the connection's own and the
\* log; and each response is one the request can get when run alone
\* against the same filesystem contents.
C10_RequestsAreIndependent ==
    /\ [](paths = [STATIC_DIR |-> STATIC_DIR, ASSETS_DIR |-> ASSETS_DIR,
                    INDEX_PATH |-> INDEX_PATH])
    /\ [][(inflight' # inflight \/ last' # last) =>
             /\ UNCHANGED <<paths, fs, phase, error>>
             /\ \E c \in Conns :
                    /\ \A d \in Conns \ {c} : inflight'[d] = inflight[d]
                    /\ last' # last => last'.conn = c]_vars
    /\ [](last.route # "none" => last.resp \in AloneResponses(last))

\* C10 witness: a GET / was answered on one connection while the other
\* connection had a response of its own pending.
C10_Witness ==
    /\ last.route = "index"
    /\ last.resp.status = 200
    /\ \E c \in Conns : /\ c # last.conn
                        /\ inflight[c].busy
                        /\ inflight[c].origin # last.origin
                        /\ inflight[c].gzip # last.gzip

=============================================================================
